---- MODULE Spec2Model ----
(***************************************************************************)
(* Model of update_map.py: one sync cycle of the arXiv research map.       *)
(* A cycle loads database.parquet, prunes it to the 5-day window, fetches  *)
(* the provider's results with retry on rate limiting, scores and merges   *)
(* the unseen records, prunes again and rewrites database.parquet.         *)
(***************************************************************************)
EXTENDS Integers, Sequences, FiniteSets, TLC

\* ------------------------------------------------------------- bounds
\* Last day (counted from the calendar origin) the clock reaches.
MaxNow == 8
\* Longest result list the provider returns in one attempt.
MaxBatch == 2
\* Most authors of a record given to the scorer.
MaxAuthors == 9

\* -------------------------------------------------- program constants
\* timedelta(days=5)
RetentionDays == 5
\* max_retries=5
MaxRetries == 5
\* time.sleep((i + 1) * 30)
BackoffBase == 30
\* "score >= 4"
Threshold == 4

VARIABLES
    now,          \* datetime.now(timezone.utc) of the running cycle, as a day number
    cutoff_date,  \* the 'YYYY-MM-DD' string of now - 5 days
    DB_PATH,      \* the file database.parquet: [st, rows]
    db_df,        \* the loaded, migrated and pruned table
    i,            \* loop index of fetch_results_with_retry
    results,      \* what fetch_results_with_retry returned
    sleeps,       \* the time.sleep() calls of this fetch, in order
    log,          \* the provider's answers of this fetch, in order
    pc,           \* where the process is
    err,          \* the exception that ended the cycle, "" when none
    exported,     \* embedding-atlas was run in this cycle
    disk0,        \* database.parquet as it was when the cycle started
    wrote,        \* to_parquet was called in this cycle
    rerun,        \* this cycle repeats the one before: same day, same results
    scored        \* the rows calculate_reputation was applied to in this cycle

vars == <<now, cutoff_date, DB_PATH, db_df, i, results, sleeps, log, pc, err,
          exported, disk0, wrote, rerun,
          scored>>

\* ---------------------------------------------------------- sequences
BoundedSeq(S, n) == UNION {[1..k -> S] : k \in 0..n}

\* ------------------------------------------------------------ strings
\* A string is the sequence of its characters.
\* "429" in str(e): substring test.
Contains(s, sub) ==
    \E k \in 0..(Len(s) - Len(sub)) : SubSeq(s, k + 1, k + Len(sub)) = sub

\* Python's str comparison: lexicographic, a proper prefix is smaller.
Ord(c) == CASE c = "-" -> 45
            [] c = "0" -> 48 [] c = "1" -> 49 [] c = "2" -> 50 [] c = "3" -> 51
            [] c = "4" -> 52 [] c = "5" -> 53 [] c = "6" -> 54 [] c = "7" -> 55
            [] c = "8" -> 56 [] c = "9" -> 57

RECURSIVE StrGE(_, _)
StrGE(a, b) ==
    IF b = <<>> THEN TRUE
    ELSE IF a = <<>> THEN FALSE
    ELSE IF Head(a) = Head(b) THEN StrGE(Tail(a), Tail(b))
    ELSE Ord(Head(a)) > Ord(Head(b))

\* -------------------------------------------------------------- dates
\* The calendar: day 0 is 2024-12-30, so the days of the model run over the
\* end of a month and of a year.
Civil(day) ==
    IF day <= 1 THEN <<2024, 12, 30 + day>> ELSE <<2025, 1, day - 1>>

Digit(n) == CASE n = 0 -> "0" [] n = 1 -> "1" [] n = 2 -> "2" [] n = 3 -> "3"
              [] n = 4 -> "4" [] n = 5 -> "5" [] n = 6 -> "6" [] n = 7 -> "7"
              [] n = 8 -> "8" [] n = 9 -> "9"

Pad2(n) == <<Digit(n \div 10), Digit(n % 10)>>

Pad4(n) == <<Digit(n \div 1000), Digit((n \div 100) % 10),
             Digit((n \div 10) % 10), Digit(n % 10)>>

\* strftime('%Y-%m-%d')
Strftime(day) ==
    LET c == Civil(day) IN Pad4(c[1]) \o <<"-">> \o Pad2(c[2]) \o <<"-">> \o Pad2(c[3])

\* ----------------------------------------------------------- provider
\* Permanent URIs (r.entry_id) the provider hands out.  The last one has an
\* empty last path segment.
Uris == { <<"a", "/", "x">>, <<"a", "/", "y">>, <<"a", "/">> }

\* r.published, as a day number.  A paper's submission date is fixed by the
\* provider: every copy of a record carries the same date.
PublishedDay(uri) == IF uri = <<"a", "/", "x">> THEN 0 ELSE 2

\* What the provider may say about a paper: a first version, and a revised
\* one with another title, an institution in the abstract and more authors.
\* kw is the set of signals that f"{title} {text}".lower() holds.
FirstVersion == [title |-> "t1", kw |-> {}, authors |-> 2]

Revised == [title |-> "t2", kw |-> {"institution"}, authors |-> 9]

Raw(uri, c) ==
    [entry_id |-> uri, title |-> c.title, kw |-> c.kw, authors |-> c.authors,
     published |-> PublishedDay(uri)]

\* The records the provider may return: every paper in its first version, and
\* the paper x also revised.
RawRecords ==
    {Raw(u, FirstVersion) : u \in Uris} \cup {Raw(<<"a", "/", "x">>, Revised)}

Batches == BoundedSeq(RawRecords, MaxBatch)

\* str(e) of the exceptions client.results() raises.
ErrorMessages == { <<"H", "T", "T", "P", " ", "4", "2", "9">>,
                   <<"r", "e", "s", "e", "t">> }

\* One attempt's outcome: the full result list, or an exception.
Answers == [kind : {"ok"}, batch : Batches, msg : {<<>>}]
           \cup [kind : {"error"}, batch : {<<>>}, msg : ErrorMessages]

\* "429" in str(e)
\* Faulty variant: every exception is taken for a rate limit (bare except).
AnyError(ans) == ans.kind = "error"

IsRateLimit(ans) == ans.kind = "error" /\ Contains(ans.msg, <<"4", "2", "9">>)

\* --------------------------------------------------------- normalizer
\* r.entry_id.split('/')[-1]
RECURSIVE LastSegment(_)
LastSegment(uri) ==
    IF uri = <<>> THEN <<>>
    ELSE IF uri[Len(uri)] = "/" THEN <<>>
    ELSE Append(LastSegment(SubSeq(uri, 1, Len(uri) - 1)), uri[Len(uri)])

\* One row of all_fetched.
Normalize(r) ==
    [id |-> LastSegment(r.entry_id), title |-> r.title, kw |-> r.kw,
     date |-> Strftime(r.published), authors |-> r.authors]

AllFetched(res) == [k \in 1..Len(res) |-> Normalize(res[k])]

\* ------------------------------------------------------------- scorer
\* Faulty variant: the threshold is score > 4.
calculate_reputation_strict(row) ==
    LET inst  == IF "institution" \in row.kw THEN 3 ELSE 0
        auth  == IF row.authors >= 8 THEN 2 ELSE IF row.authors >= 4 THEN 1 ELSE 0
        art   == IF "artifact" \in row.kw THEN 2 ELSE 0
        rigor == IF "rigor" \in row.kw THEN 1 ELSE 0
        score == inst + auth + art + rigor
    IN  IF score > Threshold THEN "Reputation Enhanced" ELSE "Reputation Std."

\* Faulty variant: the institution test sets the score (score = 3) after the
\* other tests, where the code adds to it.
calculate_reputation_overwrite(row) ==
    LET auth  == IF row.authors >= 8 THEN 2 ELSE IF row.authors >= 4 THEN 1 ELSE 0
        art   == IF "artifact" \in row.kw THEN 2 ELSE 0
        rigor == IF "rigor" \in row.kw THEN 1 ELSE 0
        score == IF "institution" \in row.kw THEN 3 ELSE auth + art + rigor
    IN  IF score >= Threshold THEN "Reputation Enhanced" ELSE "Reputation Std."

calculate_reputation(row) ==
    LET inst  == IF "institution" \in row.kw THEN 3 ELSE 0
        auth  == IF row.authors >= 8 THEN 2 ELSE IF row.authors >= 4 THEN 1 ELSE 0
        art   == IF "artifact" \in row.kw THEN 2 ELSE 0
        rigor == IF "rigor" \in row.kw THEN 1 ELSE 0
        score == inst + auth + art + rigor
    IN  IF score >= Threshold THEN "Reputation Enhanced" ELSE "Reputation Std."

\* generate_tldrs_local for one row: the text the summarizer generates from
\* the prompt f"Summarize: {row['title']}" (do_sample=False).
Tldr(row) == <<"Summarize: ", row.title>>

\* A row of new_data after lines 171-172.
Scored(row) ==
    [id |-> row.id, title |-> row.title, kw |-> row.kw, date |-> row.date,
     authors |-> row.authors, tldr |-> Tldr(row),
     Reputation |-> calculate_reputation(row)]

\* -------------------------------------------------------------- table
\* A DataFrame is the sequence of its rows.
Ids(df) == {df[k].id : k \in 1..Len(df)}

\* df[df['date'] >= cutoff_date]
Prune(df, cutoff) == SelectSeq(df, LAMBDA row : StrGE(row.date, cutoff))

\* Faulty variant: the fetched rows are not filtered against the loaded table.
NewDataAll(all_fetched, db) == all_fetched

\* all_fetched[~all_fetched['id'].isin(db_df['id'])] when db_df has rows,
\* all_fetched.copy() when it has none.
NewData(all_fetched, db) ==
    IF db # <<>>
    THEN SelectSeq(all_fetched, LAMBDA row : row.id \notin Ids(db))
    ELSE all_fetched

\* Faulty variant: no deduplication.
DropDuplicatesNone(df) == df

\* drop_duplicates(subset=['id'], keep='last')
RECURSIVE DropDuplicates(_)
DropDuplicates(df) ==
    IF df = <<>> THEN <<>>
    ELSE IF Head(df).id \in Ids(Tail(df)) THEN DropDuplicates(Tail(df))
    ELSE <<Head(df)>> \o DropDuplicates(Tail(df))

\* combined_df['label'] = combined_df['title']
WithLabel(df) ==
    [k \in 1..Len(df) |->
        [f \in (DOMAIN df[k]) \cup {"label"} |->
            IF f = "label" THEN df[k].title ELSE df[k][f]]]

\* The migration block: the column Paper_Priority becomes Reputation, and the
\* old labels become the new ones.
MigrateRow(row) ==
    LET renamed ==
            IF "Paper_Priority" \in DOMAIN row
            THEN [f \in ((DOMAIN row) \ {"Paper_Priority"}) \cup {"Reputation"} |->
                    IF f = "Reputation" THEN row.Paper_Priority ELSE row[f]]
            ELSE row
    IN  IF "Reputation" \in DOMAIN renamed
        THEN [renamed EXCEPT !.Reputation =
                CASE @ = "Standard" -> "Reputation Std."
                  [] @ = "High Priority" -> "Reputation Enhanced"
                  [] OTHER -> @]
        ELSE renamed

Migrate(df) == [k \in 1..Len(df) |-> MigrateRow(df[k])]

\* Lines 130-146: what the cycle loads from a readable database.parquet.
Load(file, cutoff) ==
    IF file.st = "absent" THEN <<>> ELSE Prune(Migrate(file.rows), cutoff)

\* Faulty variant: the rows of the loaded table are scored again.
CombinedRescored(res, db) ==
    LET rescored == [k \in 1..Len(db) |->
                        [db[k] EXCEPT !.Reputation = calculate_reputation(db[k])]]
    IN  IF res # <<>>
        THEN LET new_data == NewData(AllFetched(res), db)
             IN  IF new_data # <<>>
                 THEN rescored \o [k \in 1..Len(new_data) |-> Scored(new_data[k])]
                 ELSE rescored
        ELSE rescored

\* Lines 155-177: combined_df.
Combined(res, db) ==
    IF res # <<>>
    THEN LET new_data == NewData(AllFetched(res), db)
         IN  IF new_data # <<>>
             THEN db \o [k \in 1..Len(new_data) |-> Scored(new_data[k])]
             ELSE db
    ELSE db

\* Faulty variant: the second prune (line 180) is left out.
FinalNoPrune(res, db, cutoff) == WithLabel(DropDuplicates(Combined(res, db)))

\* Lines 179-181: the table handed to to_parquet.
Final(res, db, cutoff) ==
    WithLabel(Prune(DropDuplicates(Combined(res, db)), cutoff))

\* A table written by the version of the program that called the column
\* Paper_Priority.
LegacyFile ==
    [st |-> "table",
     rows |-> << [id |-> <<"x">>, title |-> "t1", kw |-> {}, date |-> Strftime(0),
                  authors |-> 2, tldr |-> <<"Summarize: ", "t1">>,
                  Paper_Priority |-> "High Priority", label |-> "t1"] >>]

AbsentFile == [st |-> "absent", rows |-> <<>>]

\* ------------------------------------------------------------ actions
Init ==
    /\ now = RetentionDays
    /\ cutoff_date = Strftime(0)
    /\ DB_PATH \in {AbsentFile, LegacyFile}
    /\ db_df = <<>>
    /\ i = 0
    /\ results = <<>>
    /\ sleeps = <<>>
    /\ log = <<>>
    /\ pc = "idle"
    /\ err = ""
    /\ exported = FALSE
    /\ disk0 = DB_PATH
    /\ wrote = FALSE
    /\ rerun = FALSE
    /\ scored = <<>>

\* Lines 127-151: the process starts on day d, computes the cutoff, loads and
\* prunes the table.  pd.read_parquet raises on a file that is not a complete
\* parquet file.
StartCycle(d) ==
    /\ pc = "idle"
    /\ now' = d
    /\ cutoff_date' = Strftime(d - RetentionDays)
    /\ IF DB_PATH.st = "truncated"
       THEN /\ db_df' = <<>>
            /\ pc' = "aborted"
            /\ err' = "read_parquet"
       ELSE /\ db_df' = Load(DB_PATH, Strftime(d - RetentionDays))
            /\ pc' = "fetch"
            /\ err' = ""
    /\ UNCHANGED <<DB_PATH, i, results, sleeps, log, exported, disk0, wrote, rerun,
                   scored>>

\* Faulty variant: the wait is i * 30, not (i + 1) * 30.
RateLimitedFromZero(ans) ==
    /\ sleeps' = Append(sleeps, i * BackoffBase)
    /\ i' = i + 1
    /\ UNCHANGED <<results, pc, err>>

\* Faulty variant: no sleep after the last attempt of the loop.
RateLimitedNoFinalSleep(ans) ==
    /\ sleeps' = IF i + 1 < MaxRetries THEN Append(sleeps, (i + 1) * BackoffBase)
                 ELSE sleeps
    /\ i' = i + 1
    /\ UNCHANGED <<results, pc, err>>

\* Lines 54-55, a rate-limited attempt: sleep, then the next turn of the loop.
RateLimited(ans) ==
    /\ sleeps' = Append(sleeps, (i + 1) * BackoffBase)
    /\ i' = i + 1
    /\ UNCHANGED <<results, pc, err>>

\* Line 56, any other exception: re-raised, the process ends.
Reraise(ans) ==
    /\ pc' = "aborted"
    /\ err' = "fetch"
    /\ UNCHANGED <<results, sleeps, i>>

\* Faulty variant: only the first record of the attempt's list is returned.
ReturnFirst(ans) ==
    /\ results' = IF ans.batch = <<>> THEN <<>> ELSE <<Head(ans.batch)>>
    /\ pc' = "merge"
    /\ UNCHANGED <<sleeps, i, err>>

\* Line 53, the attempt succeeded: its list is the function's result.
Return(ans) ==
    /\ results' = ans.batch
    /\ pc' = "merge"
    /\ UNCHANGED <<sleeps, i, err>>

\* Faulty variant: the loop runs once more, range(max_retries + 1).
AttemptOffByOne(ans) ==
    /\ pc = "fetch"
    /\ i <= MaxRetries
    /\ log' = Append(log, ans)
    /\ IF ans.kind = "ok" THEN Return(ans)
       ELSE IF IsRateLimit(ans) THEN RateLimited(ans)
       ELSE Reraise(ans)
    /\ UNCHANGED <<now, cutoff_date, DB_PATH, db_df, exported, disk0, wrote, rerun,
                   scored>>

\* Lines 52-56: one turn of the loop of fetch_results_with_retry.
Attempt(ans) ==
    /\ pc = "fetch"
    /\ i < MaxRetries
    /\ log' = Append(log, ans)
    /\ IF ans.kind = "ok" THEN Return(ans)
       ELSE IF IsRateLimit(ans) THEN RateLimited(ans)
       ELSE Reraise(ans)
    /\ UNCHANGED <<now, cutoff_date, DB_PATH, db_df, exported, disk0, wrote, rerun,
                   scored>>

\* Faulty variant: when the loop runs out the function returns an empty list.
ExhaustedReturnsEmpty ==
    /\ pc = "fetch"
    /\ i >= MaxRetries
    /\ pc' = "merge"
    /\ results' = <<>>
    /\ UNCHANGED <<now, cutoff_date, DB_PATH, db_df, i, sleeps, log, err,
                   exported, disk0, wrote, rerun,
                   scored>>

\* Line 57: the loop ran out.
Exhausted ==
    /\ pc = "fetch"
    /\ i >= MaxRetries
    /\ pc' = "aborted"
    /\ err' = "Max retries exceeded"
    /\ UNCHANGED <<now, cutoff_date, DB_PATH, db_df, i, results, sleeps, log,
                   exported, disk0, wrote, rerun,
                   scored>>

\* Line 154.
\* Faulty variant: the test reads only the fetched list (if results:).
HasDataBatchOnly == results # <<>>

HasData == results # <<>> \/ db_df # <<>>

\* The rows of new_data in this cycle.
new_data == IF results # <<>> THEN NewData(AllFetched(results), db_df) ELSE <<>>

\* Line 182: to_parquet(DB_PATH) returned.
Persisted == [st |-> "table", rows |-> Final(results, db_df, cutoff_date)]

\* Lines 154-187, the branch that has data.  pipeline() may raise before
\* anything is written (outcome "pipeline"); the exporter may fail after the
\* table is written (outcome "export": check=True raises).
Sync(outcome) ==
    /\ pc = "merge"
    /\ HasData
    /\ IF outcome = "pipeline"
       THEN /\ new_data # <<>>
            /\ pc' = "aborted"
            /\ err' = "pipeline"
            /\ UNCHANGED <<DB_PATH, wrote, exported, scored>>
       ELSE /\ scored' = new_data
            /\ DB_PATH' = Persisted
            /\ wrote' = TRUE
            /\ exported' = TRUE
            /\ IF outcome = "export"
               THEN pc' = "aborted" /\ err' = "embedding-atlas"
               ELSE pc' = "done" /\ err' = ""
    /\ UNCHANGED <<now, cutoff_date, db_df, i, results, sleeps, log, disk0,
                   rerun>>

\* Lines 188-191: nothing fetched and nothing loaded.
NoData ==
    /\ pc = "merge"
    /\ ~HasData
    /\ pc' = "done"
    /\ UNCHANGED <<now, cutoff_date, DB_PATH, db_df, i, results, sleeps, log,
                   err, exported, disk0, wrote, rerun,
                   scored>>

\* The process has ended and its memory is gone; the scheduler may start the
\* next one.
Exit ==
    /\ pc \in {"done", "aborted", "killed"}
    /\ pc' = "idle"
    /\ rerun' = FALSE
    /\ db_df' = <<>>
    /\ i' = 0
    /\ results' = <<>>
    /\ sleeps' = <<>>
    /\ log' = <<>>
    /\ err' = ""
    /\ exported' = FALSE
    /\ wrote' = FALSE
    /\ scored' = <<>>
    /\ disk0' = DB_PATH
    /\ UNCHANGED <<now, cutoff_date, DB_PATH>>

\* A completed cycle is followed by a second one on the same day, to which the
\* provider gives the same list at once: lines 127-152 of the new process,
\* which then stands before line 154 with the same results and cutoff.
Rerun ==
    /\ pc = "done"
    /\ ~rerun
    /\ rerun' = TRUE
    /\ disk0' = DB_PATH
    /\ db_df' = Load(DB_PATH, cutoff_date)
    /\ pc' = "merge"
    /\ i' = 0
    /\ sleeps' = <<>>
    /\ log' = <<[kind |-> "ok", batch |-> results, msg |-> <<>>]>>
    /\ err' = ""
    /\ exported' = FALSE
    /\ wrote' = FALSE
    /\ scored' = <<>>
    /\ UNCHANGED <<now, cutoff_date, DB_PATH, results>>

Outcomes == {"ok", "pipeline", "export"}

Next ==
    \/ \E d \in now..MaxNow : StartCycle(d)
    \/ \E ans \in Answers : Attempt(ans)
    \/ Exhausted
    \/ \E outcome \in Outcomes : Sync(outcome)
    \/ NoData
    \/ Exit
    \/ Rerun

Spec == Init /\ [][Next]_vars

\* The process is killed (or the machine stops) while it runs.  to_parquet
\* writes database.parquet in place: killed during the write, the file is
\* left without its footer.
Kill ==
    /\ pc \in {"fetch", "merge"}
    /\ pc' = "killed"
    /\ err' = "killed"
    /\ UNCHANGED <<now, cutoff_date, DB_PATH, db_df, i, results, sleeps, log,
                   exported, disk0, wrote, rerun,
                   scored>>

KillDuringWrite ==
    /\ pc = "merge"
    /\ HasData
    /\ DB_PATH' = [st |-> "truncated", rows |-> <<>>]
    /\ wrote' = TRUE
    /\ scored' = new_data
    /\ pc' = "killed"
    /\ err' = "killed"
    /\ UNCHANGED <<now, cutoff_date, db_df, i, results, sleeps, log, exported,
                   disk0, rerun>>

NextCrash == Next \/ Kill \/ KillDuringWrite

SpecCrash == Init /\ [][NextCrash]_vars

\* ------------------------------------------------- the scorer's inputs
\* What calculate_reputation reads of a text: an institution of
\* INSTITUTION_PATTERN, a code-availability keyword, a rigor keyword.
Signals == {"institution", "artifact", "rigor"}

\* Every text and author list, up to MaxAuthors authors.
ScoreContents == [title : {"t1"}, kw : SUBSET Signals, authors : 0..MaxAuthors]

\* The same record with an institution named in its text.
WithInstitution(c) == [c EXCEPT !.kw = @ \cup {"institution"}]

\* The first run of the program, with no database.parquet, stands before line
\* 154: the provider has returned the paper x with some content, and the
\* paper y with that content and an institution named in it.
InitScore ==
    /\ now = RetentionDays
    /\ cutoff_date = Strftime(0)
    /\ DB_PATH = AbsentFile
    /\ db_df = <<>>
    /\ i = 0
    /\ \E c \in ScoreContents :
          results = <<Raw(<<"a", "/", "x">>, c), Raw(<<"a", "/", "y">>, WithInstitution(c))>>
    /\ sleeps = <<>>
    /\ log = <<[kind |-> "ok", batch |-> results, msg |-> <<>>]>>
    /\ pc = "merge"
    /\ err = ""
    /\ exported = FALSE
    /\ disk0 = AbsentFile
    /\ wrote = FALSE
    /\ rerun = FALSE
    /\ scored = <<>>

NextScore ==
    \/ \E outcome \in Outcomes : Sync(outcome)
    \/ Exit

SpecScore == InitScore /\ [][NextScore]_vars

\* --------------------------------------------------------- properties
\* The day a 'YYYY-MM-DD' string stands for.
DayOf(date) == CHOOSE d \in 0..MaxNow : Strftime(d) = date

\* publishedDate >= now - retentionDays
InWindow(row) == DayOf(row.date) >= now - RetentionDays

\* The exception message names a rate limit.
Is429(ans) == ans.kind = "error" /\ Contains(ans.msg, <<"4", "2", "9">>)

\* The fetch of this cycle ended in failure: the last answer was an error that
\* is no rate limit, or the last of max_retries rate-limit errors.
FetchFailed ==
    /\ log # <<>>
    /\ log[Len(log)].kind = "error"
    /\ ~Is429(log[Len(log)]) \/ Len(log) >= MaxRetries

\* Two rows are the same version of a record: every field the provider gives.
SameVersion(row, f) ==
    /\ row.id = f.id
    /\ row.title = f.title
    /\ row.kw = f.kw
    /\ row.date = f.date
    /\ row.authors = f.authors

\* C1: after a cycle that completes without an error, every record of the
\* on-disk table is published on or after now - retentionDays.
C1_Retention ==
    pc = "done" =>
        \A k \in 1..Len(DB_PATH.rows) : InWindow(DB_PATH.rows[k])

C3_FetchFailureKeepsStore ==
    FetchFailed =>
        /\ pc \in {"fetch", "aborted"}
        /\ pc = "fetch" => i = MaxRetries
        /\ DB_PATH = disk0
        /\ ~wrote
        /\ ~exported

\* C3 witness: the retries were exhausted in a cycle whose loaded table differs
\* from the file, so that a write would have changed the file.
C3_Witness ==
    /\ pc = "aborted"
    /\ FetchFailed
    /\ Len(log) = MaxRetries
    /\ disk0.st = "table"
    /\ db_df # disk0.rows

\* C4: when the run is killed or fails before or during the write of the
\* table, database.parquet is still the complete table of before the run.
C4_AtomicPersist ==
    (pc = "killed" \/ (pc = "aborted" /\ ~exported)) => DB_PATH = disk0

\* C5: a second cycle with the results and the cutoff of a completed first one
\* leaves database.parquet as the first one left it.
C5_Idempotent ==
    (rerun /\ pc \in {"done", "aborted"}) => DB_PATH = disk0

\* C5 witness: the second cycle found fetched records that the table lacked,
\* and rewrote a table that has rows.
C5_Witness ==
    /\ rerun
    /\ pc = "done"
    /\ wrote
    /\ new_data # <<>>
    /\ DB_PATH.rows # <<>>

\* C6: the provider is called at most max_retries times; after max_retries
\* rate-limited attempts the function makes no further attempt and raises
\* "Max retries exceeded".
C6_BoundedRetries ==
    /\ Len(log) <= MaxRetries
    /\ (Len(log) = MaxRetries /\ \A k \in 1..Len(log) : Is429(log[k])) =>
          \/ pc = "fetch" /\ i = MaxRetries /\ ~ENABLED (\E ans \in Answers : Attempt(ans))
          \/ pc = "aborted" /\ err = "Max retries exceeded"

\* C6 witness: the fetch has failed after max_retries rate-limited attempts.
C6_Witness ==
    /\ pc = "aborted"
    /\ err = "Max retries exceeded"
    /\ Len(log) = MaxRetries

\* C7: there is one wait per rate-limited attempt, the n-th is n * 30 seconds,
\* and each is longer than the one before.
C7_IncreasingBackoff ==
    /\ Len(sleeps) = Cardinality({k \in 1..Len(log) : Is429(log[k])})
    /\ \A n \in 1..Len(sleeps) :
          /\ sleeps[n] = n * 30
          /\ n > 1 => sleeps[n] > sleeps[n - 1]

\* C7 witness: three rate-limited attempts in a row.
C7_Witness == Len(sleeps) >= 3

C9_ExactlyInWindow ==
    pc = "done" =>
        Ids(DB_PATH.rows) =
            {disk0.rows[k].id : k \in {n \in 1..Len(disk0.rows) : InWindow(disk0.rows[n])}}
            \cup {Normalize(results[k]).id :
                    k \in {n \in 1..Len(results) : InWindow(Normalize(results[n]))}}

\* C10: no two records of the on-disk table have the same id.
C10_UniqueIds ==
    \A j, k \in 1..Len(DB_PATH.rows) :
        j # k => DB_PATH.rows[j].id # DB_PATH.rows[k].id

\* C10 witness: a batch with the same id twice was merged and written.
C10_Witness ==
    /\ wrote
    /\ \E j, k \in 1..Len(results) :
          /\ j < k
          /\ Normalize(results[j]).id = Normalize(results[k]).id
          /\ Normalize(results[j]).id \in Ids(DB_PATH.rows)

\* The reputation of a stored row, under either name of the column.
RepOf(row) ==
    IF "Reputation" \in DOMAIN row THEN row.Reputation ELSE row.Paper_Priority

\* The reputation a label stands for, in the labels of either version.
Category(label) ==
    CASE label \in {"Reputation Enhanced", "High Priority"} -> "Enhanced"
      [] label \in {"Reputation Std.", "Standard"} -> "Standard"

\* C11: in a cycle that writes the table, calculate_reputation is applied to
\* exactly the fetched rows whose id the loaded (pruned) store lacks, and every
\* record of the file of before the cycle that is still in the file has the
\* reputation it had.
C11_OnlyNewScored ==
    wrote =>
        /\ scored = SelectSeq(AllFetched(results), LAMBDA f : f.id \notin Ids(db_df))
        /\ \A k \in 1..Len(disk0.rows), j \in 1..Len(DB_PATH.rows) :
              DB_PATH.rows[j].id = disk0.rows[k].id =>
                  Category(RepOf(DB_PATH.rows[j])) = Category(RepOf(disk0.rows[k]))

\* C11 witness: a stored record was fetched again in a version that the
\* scorer would rate otherwise, next to a record that was scored, and the
\* stored record is still in the written table.
C11_Witness ==
    /\ pc = "done"
    /\ wrote
    /\ scored # <<>>
    /\ \E k \in 1..Len(disk0.rows), m \in 1..Len(results) :
          /\ Normalize(results[m]).id = disk0.rows[k].id
          /\ disk0.rows[k].id \in Ids(DB_PATH.rows)
          /\ Category(calculate_reputation(Normalize(results[m])))
                # Category(RepOf(disk0.rows[k]))

\* The points of a row by the rule of the specification.
Points(row) ==
    (IF "institution" \in row.kw THEN 3 ELSE 0)
    + (IF "artifact" \in row.kw THEN 2 ELSE 0)
    + (IF "rigor" \in row.kw THEN 1 ELSE 0)
    + (IF row.authors >= 8 THEN 2 ELSE IF row.authors >= 4 THEN 1 ELSE 0)

\* C12: every scored record is Enhanced exactly when 3*[institution] +
\* 2*[artifact] + 1*[rigor] + (2 for 8 authors or more, 1 for 4 to 7) is at
\* least 4, and Standard otherwise.
C12_ScoringRule ==
    wrote =>
        \A j \in 1..Len(DB_PATH.rows) :
            /\ Category(DB_PATH.rows[j].Reputation) \in {"Enhanced", "Standard"}
            /\ Category(DB_PATH.rows[j].Reputation) = "Enhanced"
                  <=> Points(DB_PATH.rows[j]) >= 4

\* C12 witness: a record with an institution and 9 authors (5 points) was
\* scored Enhanced, next to one with 9 authors only (2 points) scored Standard.
C12_Witness ==
    /\ wrote
    /\ \E j, k \in 1..Len(DB_PATH.rows) :
          /\ DB_PATH.rows[j].kw = {"institution"}
          /\ DB_PATH.rows[j].authors = 9
          /\ DB_PATH.rows[j].Reputation = "Reputation Enhanced"
          /\ DB_PATH.rows[k].kw = {}
          /\ DB_PATH.rows[k].Reputation = "Reputation Std."

\* C13: of two scored records that differ only in that the second names an
\* institution, the second is Enhanced whenever the first is.
C13_Monotone ==
    wrote =>
        \A j, k \in 1..Len(DB_PATH.rows) :
            ( /\ "institution" \notin DB_PATH.rows[j].kw
              /\ DB_PATH.rows[k].kw = DB_PATH.rows[j].kw \cup {"institution"}
              /\ DB_PATH.rows[k].authors = DB_PATH.rows[j].authors
              /\ DB_PATH.rows[j].Reputation = "Reputation Enhanced" )
            => DB_PATH.rows[k].Reputation = "Reputation Enhanced"

\* C13 witness: a record without an institution was scored Enhanced, and the
\* same record with an institution was scored too.
C13_Witness ==
    /\ wrote
    /\ \E j, k \in 1..Len(DB_PATH.rows) :
          /\ "institution" \notin DB_PATH.rows[j].kw
          /\ DB_PATH.rows[k].kw = DB_PATH.rows[j].kw \cup {"institution"}
          /\ DB_PATH.rows[k].authors = DB_PATH.rows[j].authors
          /\ DB_PATH.rows[j].Reputation = "Reputation Enhanced"
          /\ DB_PATH.rows[k].Reputation = "Reputation Enhanced"

\* C14: an error without "429" in its message is the last attempt of its
\* fetch, on whichever attempt it occurs: the process is aborted by it, no sleep
\* follows it (there is one sleep per attempt before it) and no further attempt
\* can be made.
C14_FatalNotRetried ==
    \A k \in 1..Len(log) :
        (log[k].kind = "error" /\ ~Is429(log[k])) =>
            /\ k = Len(log)
            /\ pc = "aborted"
            /\ err = "fetch"
            /\ Len(sleeps) = k - 1
            /\ ~ENABLED (\E ans \in Answers : Attempt(ans))

\* C14 witness: a fatal error on the third attempt, after two rate limits.
C14_Witness ==
    /\ Len(log) = 3
    /\ Is429(log[1])
    /\ Is429(log[2])
    /\ log[3].kind = "error"
    /\ ~Is429(log[3])
    /\ pc = "aborted"

\* C15: no record with an empty id is in the table the cycle writes, and the
\* records of the batch with a good identifier are in it.
C15_NoEmptyId ==
    wrote =>
        \A j \in 1..Len(DB_PATH.rows) : DB_PATH.rows[j].id # <<>>

\* C16: after an attempt that fails with a transient error that is no rate
\* limit (connection reset), before the bound on attempts, the fetcher waits a
\* positive delay shorter than the rate-limit backoff and goes on to another
\* attempt.
C16_TransientRetried ==
    \A k \in 1..Len(log) :
        (log[k].kind = "error" /\ log[k].msg = <<"r", "e", "s", "e", "t">> /\ k < MaxRetries) =>
            /\ Len(sleeps) >= k
            /\ sleeps[k] > 0
            /\ sleeps[k] < BackoffBase
            /\ ~(pc = "aborted" /\ err = "fetch")

\* The fetch of this cycle returned a list.
FetchSucceeded == log # <<>> /\ log[Len(log)].kind = "ok"

RECURSIVE SumSeq(_)
SumSeq(q) == IF q = <<>> THEN 0 ELSE Head(q) + SumSeq(Tail(q))

\* C18: every rate-limited attempt, the last one too, is followed by a sleep;
\* the exhaustion error is raised only after the fifth sleep, the sleeps being
\* 30, 60, 90, 120, 150: 450 seconds in all.
C18_SleepAfterLast ==
    /\ \A k \in 1..Len(log) : Is429(log[k]) => Len(sleeps) >= k
    /\ err = "Max retries exceeded" =>
          /\ sleeps = <<30, 60, 90, 120, 150>>
          /\ SumSeq(sleeps) = 450
          /\ Len(log) = 5

\* C18 witness: the fetch has raised the exhaustion error.
C18_Witness ==
    /\ pc = "aborted"
    /\ err = "Max retries exceeded"
    /\ Len(sleeps) = 5

====
